---- MODULE Spec2Model ----
(***************************************************************************)
(* A model of crypto/rsa/rsa_impl.c: the RSA key validator                 *)
(* (GFp_rsa_check_modulus_and_exponent), the public transform              *)
(* (GFp_rsa_public_decrypt) and the CRT private transform                  *)
(* (GFp_rsa_private_transform).                                            *)
(*                                                                         *)
(* A BIGNUM is modelled by its magnitude: the little-endian sequence of    *)
(* its words d[0..top-1], with no zero word at the top (bn_correct_top),   *)
(* so that |top| is Len of the sequence.  TLC's integers are 32 bits wide, *)
(* and a modulus the key validator accepts has at least 34 bits, so all    *)
(* big-integer arithmetic is done on the word sequences.  A word is one    *)
(* byte wide here.                                                         *)
(***************************************************************************)
EXTENDS Integers, Sequences, FiniteSets, TLC

(***************************************************************************)
(* The big-integer engine (crypto/bn), at its interface.                   *)
(***************************************************************************)

\* A function on 1..n as the sequence of its values.
Tuple(f) == f \o <<>>

\* Word k of s, zero beyond its top.
Col(s, k) == IF k >= 1 /\ k <= Len(s) THEN s[k] ELSE 0

MaxOf(S) == CHOOSE i \in S : \A j \in S : j <= i

\* bn_correct_top: drop the zero words at the top.
Top(s) ==
  LET nz == {i \in 1..Len(s) : s[i] # 0}
  IN IF nz = {} THEN 0 ELSE MaxOf(nz)

Strip(s) == SubSeq(s, 1, Top(s))

\* A natural number below 2^31 as a BIGNUM, and a BIGNUM of at most three
\* words as a natural number.
BNFromNat(x) == Strip([i \in 1..4 |-> (x \div (256 ^ (i - 1))) % 256])

ToNat(a) == Col(a, 1) + 256 * Col(a, 2) + 65536 * Col(a, 3)

\* Carry propagation.  c holds one column sum per word, each below 2^31.
\* Round moves the part of each column above a word one column up; after
\* three rounds every column is at most 510, and then the carry into
\* column k is 1 exactly when some column below generates one (>= 256) and
\* every column between passes it on (= 255).
Round(c) ==
  Tuple([k \in 1..(Len(c) + 1) |-> (Col(c, k) % 256) + (Col(c, k - 1) \div 256)])

CarryInto(s, k) ==
  IF \E j \in 1..(k - 1) :
       s[j] >= 256 /\ \A i \in (j + 1)..(k - 1) : s[i] = 255
  THEN 1 ELSE 0

Propagate(s) ==
  Strip([k \in 1..(Len(s) + 1) |-> (Col(s, k) + CarryInto(s, k)) % 256])

Normalize(c) == Propagate(Round(Round(Round(c))))

LongerLen(a, b) == IF Len(a) >= Len(b) THEN Len(a) ELSE Len(b)

\* GFp_BN_add on non-negative values.
GFp_BN_add(a, b) ==
  Propagate(Tuple([k \in 1..LongerLen(a, b) |-> Col(a, k) + Col(b, k)]))

\* a - b for a >= b: word k borrows exactly when some word below has
\* a[j] < b[j] and the words between are equal.
BorrowInto(a, b, k) ==
  IF \E j \in 1..(k - 1) :
       Col(a, j) < Col(b, j) /\ \A i \in (j + 1)..(k - 1) : Col(a, i) = Col(b, i)
  THEN 1 ELSE 0

BNSub(a, b) ==
  Strip([k \in 1..Len(a) |->
           (Col(a, k) - Col(b, k) - BorrowInto(a, b, k) + 256) % 256])

\* a * w for one word w.
MulWord(a, w) == Normalize(Tuple([k \in 1..Len(a) |-> a[k] * w]))

\* Column k of the schoolbook product: the sum of a[i] * b[k + 1 - i].
RECURSIVE ColSum(_, _, _, _)
ColSum(a, b, k, i) ==
  IF i = 0 THEN 0 ELSE a[i] * Col(b, k + 1 - i) + ColSum(a, b, k, i - 1)

BNMul(a, b) ==
  IF a = <<>> \/ b = <<>> THEN <<>>
  ELSE Normalize(Tuple([k \in 1..(Len(a) + Len(b)) |->
                          ColSum(a, b, k, Len(a))]))

\* GFp_BN_ucmp: -1, 0 or 1 as |a| <, =, > |b|.
GFp_BN_ucmp(a, b) ==
  IF Len(a) < Len(b) THEN -1
  ELSE IF Len(a) > Len(b) THEN 1
  ELSE LET D == {i \in 1..Len(a) : a[i] # b[i]}
       IN IF D = {} THEN 0
          ELSE IF a[MaxOf(D)] < b[MaxOf(D)] THEN -1 ELSE 1

\* x mod m for x < 256 * m.  The quotient q < 256 lies between the
\* quotients of the words of x and m above word sh, rounded either way.
ModStep(x, m) ==
  IF Len(m) <= 2 THEN BNFromNat(ToNat(x) % ToNat(m))
  ELSE LET sh == Len(m) - 2
           xt == Col(x, sh + 1) + 256 * Col(x, sh + 2) + 65536 * Col(x, sh + 3)
           mt == Col(m, sh + 1) + 256 * Col(m, sh + 2)
           lo == xt \div (mt + 1)
           hi == IF (xt + 1) \div mt > 255 THEN 255 ELSE (xt + 1) \div mt
           q == MaxOf({c \in lo..hi : GFp_BN_ucmp(MulWord(m, c), x) <= 0})
       IN BNSub(x, MulWord(m, q))

\* a mod m by long division, one word of a at a time from the top; the top
\* Len(m) - 1 words of a are below m as they stand.
RECURSIVE ModFrom(_, _, _)
ModFrom(a, m, i) ==
  IF i > Len(a) - (Len(m) - 1) THEN SubSeq(a, i, Len(a))
  ELSE LET r == ModFrom(a, m, i + 1)
       IN IF r = <<>> /\ a[i] = 0 THEN <<>>
          ELSE ModStep(<<a[i]>> \o r, m)

BNMod(a, m) == ModFrom(a, m, 1)

\* a mod w and a div w for a small natural w.
RECURSIVE ModNatFrom(_, _, _)
ModNatFrom(a, w, i) ==
  IF i > Len(a) THEN 0 ELSE (ModNatFrom(a, w, i + 1) * 256 + a[i]) % w

ModNat(a, w) == ModNatFrom(a, w, 1)

DivNat(a, w) ==
  Strip([i \in 1..Len(a) |-> (ModNatFrom(a, w, i + 1) * 256 + a[i]) \div w])

Reverse(s) == Tuple([i \in 1..Len(s) |-> s[Len(s) + 1 - i]])

BitLen(w) == CHOOSE k \in 0..8 : w < 2 ^ k /\ (k = 0 \/ w >= 2 ^ (k - 1))

\* GFp_BN_num_bits, GFp_BN_num_bytes, GFp_BN_is_odd.
GFp_BN_num_bits(a) ==
  IF a = <<>> THEN 0 ELSE 8 * (Len(a) - 1) + BitLen(a[Len(a)])

GFp_BN_num_bytes(a) == (GFp_BN_num_bits(a) + 7) \div 8

GFp_BN_is_odd(a) == a # <<>> /\ a[1] % 2 = 1

\* GFp_BN_bin2bn: a big-endian byte string, leading zeros skipped.
GFp_BN_bin2bn(bytes) == Strip(Reverse(bytes))

\* GFp_BN_bn2bin_padded: the big-endian bytes of a, zero padded on the
\* left to len bytes; it fails, writing nothing, when a does not fit.
BnFits(a, len) == Len(a) <= len

GFp_BN_bn2bin_padded(a, len) == Tuple([i \in 1..len |-> Col(a, len + 1 - i)])

(***************************************************************************)
(* Montgomery contexts (BN_MONT_CTX): the modulus N, n0 = -1/N mod 2^w for *)
(* the word width w, and RR = R^2 mod N with R = 2^(w * top(N)).           *)
(***************************************************************************)

RPower(k) == Tuple([i \in 1..(k + 1) |-> IF i = k + 1 THEN 1 ELSE 0])

MontCtx(N) ==
  [N |-> N,
   n0 |-> CHOOSE x \in 0..255 : (x * N[1]) % 256 = 255,
   RR |-> BNMod(RPower(2 * Len(N)), N)]

\* Montgomery reduction, word by word: T := (T + u * N) / 2^w, top(N)
\* times, on column sums; u makes the lowest word of T + u * N zero.
RECURSIVE Redc(_, _, _)
Redc(T, mont, i) ==
  IF i = 0 THEN T
  ELSE LET u == ((Col(T, 1) % 256) * mont.n0) % 256
           c == (Col(T, 1) + u * mont.N[1]) \div 256
           S == Tuple([k \in 1..LongerLen(T, mont.N) |->
                         Col(T, k + 1) + u * Col(mont.N, k + 1)
                           + (IF k = 1 THEN c ELSE 0)])
       IN IF S = <<>> THEN <<>> ELSE Redc(S, mont, i - 1)

\* GFp_BN_from_mont: T / R mod N, for T < N * R.
LessOnce(r, N) == IF GFp_BN_ucmp(r, N) >= 0 THEN BNSub(r, N) ELSE r

BNFromMont(T, mont) ==
  LET t == Redc(T, mont, Len(mont.N))
  IN IF t = <<>> THEN <<>> ELSE LessOnce(Normalize(t), mont.N)

\* GFp_BN_mod_mul_mont: a * b / R mod N.
GFp_BN_mod_mul_mont(a, b, mont) ==
  LET ab == BNMul(a, b)
  IN IF ab = <<>> THEN <<>> ELSE BNFromMont(ab, mont)

\* a in Montgomery form: a * R mod N.
BNToMont(a, mont) == GFp_BN_mod_mul_mont(a, mont.RR, mont)

\* GFp_BN_reduce_mont: a mod N as one Montgomery reduction (a / R mod N)
\* followed by the multiplication by RR that cancels 1/R.
GFp_BN_reduce_mont(a, mont) ==
  LET t == BNFromMont(a, mont)
  IN IF t = <<>> THEN <<>> ELSE BNToMont(t, mont)

\* The exponent halved.
HalfWords(e) ==
  Strip([k \in 1..Len(e) |-> (e[k] \div 2) + 128 * (Col(e, k + 1) % 2)])

\* a^e mod N by square and multiply in Montgomery form; aM is a * R mod N.
RECURSIVE ExpMont(_, _, _)
ExpMont(aM, e, mont) ==
  IF e = <<>> THEN BNFromMont(mont.RR, mont)
  ELSE LET h == ExpMont(aM, HalfWords(e), mont)
       IN IF h = <<>> THEN <<>>
          ELSE LET sq == GFp_BN_mod_mul_mont(h, h, mont)
               IN IF GFp_BN_is_odd(e) THEN GFp_BN_mod_mul_mont(sq, aM, mont)
                  ELSE sq

\* GFp_BN_mod_exp_mont_consttime and GFp_BN_mod_exp_mont_vartime compute the
\* same value, a^e mod N for a < N; they differ in timing only.
GFp_BN_mod_exp_mont(a, e, mont) ==
  LET aM == BNToMont(a, mont)
  IN IF aM = <<>> /\ e # <<>> THEN <<>>
     ELSE LET rM == ExpMont(aM, e, mont)
          IN IF rM = <<>> THEN <<>> ELSE BNFromMont(rM, mont)

\* GFp_BN_mod_sub_quick: a - b mod m for -m < a - b < m, one conditional
\* addition of m.
GFp_BN_mod_sub_quick(a, b, m) ==
  IF GFp_BN_ucmp(a, b) >= 0 THEN BNSub(a, b) ELSE BNSub(m, BNSub(b, a))

(***************************************************************************)
(* The bounds of the model.                                                *)
(***************************************************************************)

\* Input blocks are taken within MsgSpread of 0 and of the modulus.
MsgSpread == 2
\* Buffer lengths are taken within LenSlack of the modulus byte length.
LenSlack == 1
\* The blinding context draws its random factor from 1..MaxBlind.
MaxBlind == 2

(***************************************************************************)
(* RSA private keys (struct rsa_st), as the key-construction code builds   *)
(* them: the Montgomery contexts of n, p, q and q^2, the CRT exponents,    *)
(* and q^-1 mod p and q in Montgomery form.                                *)
(***************************************************************************)

MakeKey(p, q, e, dmp1, dmq1, iqmp) ==
  LET P == BNFromNat(p)
      Q == BNFromNat(q)
      mont_n == MontCtx(BNMul(P, Q))
      mont_p == MontCtx(P)
  IN [e |-> BNFromNat(e),
      dmp1 |-> BNFromNat(dmp1),
      dmq1 |-> BNFromNat(dmq1),
      mont_n |-> mont_n,
      mont_p |-> mont_p,
      mont_q |-> MontCtx(Q),
      mont_qq |-> MontCtx(BNMul(Q, Q)),
      iqmp_mont |-> BNToMont(BNFromNat(iqmp), mont_p),
      qmn_mont |-> BNToMont(Q, mont_n)]

\* n = 33 (p >= q^2), n = 391, and a 34-bit modulus, the smallest size the
\* key validator accepts; (p, q, e, d mod (p-1), d mod (q-1), q^-1 mod p).
Keys ==
  { MakeKey(11, 3, 3, 7, 1, 4),
    MakeKey(23, 17, 3, 15, 11, 19),
    MakeKey(95483, 92849, 439, 435, 423, 47814) }

\* GFp_RSA_size.
GFp_RSA_size(key) == GFp_BN_num_bytes(key.mont_n.N)

\* The buffers of len bytes a caller may pass for the modulus n.
NearValues(n) ==
  {BNFromNat(j) : j \in 0..MsgSpread}
    \cup {BNSub(n, BNFromNat(j)) : j \in 1..(MsgSpread + 1)}
    \cup {GFp_BN_add(n, BNFromNat(j)) : j \in 0..MsgSpread}

Buffers(n, len) ==
  {GFp_BN_bn2bin_padded(v, len) : v \in {w \in NearValues(n) : BnFits(w, len)}}
    \cup {Tuple([i \in 1..len |-> 255])}

Lengths(size) == {l \in (size - LenSlack)..(size + LenSlack) : l >= 0}

(***************************************************************************)
(* The blinding context (BN_BLINDING), at its interface: convert           *)
(* multiplies by A = f^e mod n for a random unit f, invert multiplies by   *)
(* Ai = f^-1 mod n.                                                        *)
(***************************************************************************)

RECURSIVE Gcd(_, _)
Gcd(a, b) == IF b = 0 THEN a ELSE Gcd(b, a % b)

BlindFactors(n) == {f \in 1..MaxBlind : Gcd(f, ModNat(n, f)) = 1}

\* f^-1 mod n for a small unit f: (k * n + 1) / f for the k that makes it whole.
InverseOfNat(f, n) ==
  LET k == CHOOSE k \in 0..(f - 1) : (k * ModNat(n, f) + 1) % f = 0
  IN DivNat(GFp_BN_add(MulWord(n, k), <<1>>), f)

BlindingFor(f, key) ==
  [A |-> GFp_BN_mod_exp_mont(BNFromNat(f), key.e, key.mont_n),
   Ai |-> InverseOfNat(f, key.mont_n.N)]

\* a * b mod N for a, b < N: their Montgomery product a * b / R, then the
\* multiplication by RR that cancels 1/R.
ModMul(a, b, mont) ==
  LET t == GFp_BN_mod_mul_mont(a, b, mont)
  IN IF t = <<>> THEN <<>> ELSE BNToMont(t, mont)

GFp_BN_BLINDING_convert(n, b, mont) == ModMul(n, b.A, mont)

GFp_BN_BLINDING_invert(n, b, mont) == ModMul(n, b.Ai, mont)

(***************************************************************************)
(* GFp_rsa_check_modulus_and_exponent: the reason of the first failing     *)
(* check, or "ok".                                                         *)
(***************************************************************************)

kMaxExponentBits == 33
\* The absolute ceiling on the modulus bit length, 16 * 1024.
kMaxModulusBits == 16384

\* The last check off by one: a modulus of exactly kMaxExponentBits bits passes.
CheckOffByOne(n, e, min_bits, max_bits) ==
  LET rsa_bits == GFp_BN_num_bits(n)
      e_bits == GFp_BN_num_bits(e)
  IN IF rsa_bits < min_bits THEN "RSA_R_KEY_SIZE_TOO_SMALL"
     ELSE IF rsa_bits > kMaxModulusBits \/ rsa_bits > max_bits
       THEN "RSA_R_MODULUS_TOO_LARGE"
     ELSE IF e_bits < 2 THEN "RSA_R_BAD_E_VALUE"
     ELSE IF e_bits > kMaxExponentBits THEN "RSA_R_BAD_E_VALUE"
     ELSE IF ~GFp_BN_is_odd(e) THEN "RSA_R_BAD_E_VALUE"
     ELSE IF rsa_bits < kMaxExponentBits THEN "RSA_R_KEY_SIZE_TOO_SMALL"
     ELSE "ok"

GFp_rsa_check_modulus_and_exponent(n, e, min_bits, max_bits) ==
  LET rsa_bits == GFp_BN_num_bits(n)
      e_bits == GFp_BN_num_bits(e)
  IN IF rsa_bits < min_bits THEN "RSA_R_KEY_SIZE_TOO_SMALL"
     ELSE IF rsa_bits > kMaxModulusBits \/ rsa_bits > max_bits
       THEN "RSA_R_MODULUS_TOO_LARGE"
     ELSE IF e_bits < 2 THEN "RSA_R_BAD_E_VALUE"
     ELSE IF e_bits > kMaxExponentBits THEN "RSA_R_BAD_E_VALUE"
     ELSE IF ~GFp_BN_is_odd(e) THEN "RSA_R_BAD_E_VALUE"
     ELSE IF rsa_bits <= kMaxExponentBits THEN "RSA_R_KEY_SIZE_TOO_SMALL"
     ELSE "ok"

\* 2^k, and the moduli and exponents the validator is exercised on: around
\* 33 bits and around the 16384-bit ceiling.
Pow2(k) == Tuple([i \in 1..((k \div 8) + 1) |->
                    IF i = (k \div 8) + 1 THEN 2 ^ (k % 8) ELSE 0])

CheckModuli ==
  { <<>>, Pow2(32), GFp_BN_add(Pow2(33), <<1>>), Pow2(kMaxModulusBits - 1),
    Pow2(kMaxModulusBits) }

CheckExponents ==
  { <<>>, <<1>>, <<2>>, <<3>>, <<4>>, <<1, 0, 1>>, Pow2(32),
    GFp_BN_add(Pow2(32), <<1>>), GFp_BN_add(Pow2(33), <<1>>) }

CheckMinBits == {0, 34, 2048}
CheckMaxBits == {33, 8192, 20000}

(***************************************************************************)
(* The state of one call: the control point, the arguments, the caller's   *)
(* buffer, the scratch big integers, the error queue and the return value. *)
(***************************************************************************)

VARIABLES
  pc,        \* the statement about to run; "idle" between calls
  arg,       \* the arguments of the call in progress
  buf,       \* the caller's buffer: inout, or out
  bn,        \* the value of each scratch BIGNUM of the function
  freed,     \* how many times GFp_BN_free ran on each scratch BIGNUM
  errq,      \* the reasons pushed by OPENSSL_PUT_ERROR during the call
  ret,       \* the function's ret; what it returns once pc is "done"
  ops,       \* the big-integer engine operations invoked, in order
  blinding,  \* the pair (A, Ai) the blinding context holds for the call
  env,       \* what befell the call: "fault" (a CRT partial result was
             \* corrupted), "engine" (an engine call reported failure)
  sent       \* for a public decrypt of a private transform's output: the
             \* one-tuple of the message that was transformed

vars == <<pc, arg, buf, bn, freed, errq, ret, ops, blinding, env, sent>>

NoArg == [fn |-> "none"]
NoBlinding == [A |-> <<>>, Ai |-> <<>>]
NoBn == [x \in {} |-> <<>>]

PrivateBn == {"base", "r", "tmp", "mp", "mq", "vrfy"}
PublicBn == {"n", "e", "f", "result"}

Init ==
  /\ pc = "idle"
  /\ arg = NoArg
  /\ buf = <<>>
  /\ bn = NoBn
  /\ freed = NoBn
  /\ errq = <<>>
  /\ ret = 0
  /\ ops = <<>>
  /\ blinding = NoBlinding
  /\ env = {}
  /\ sent = <<>>

\* The entry of a call: every scratch BIGNUM initialised to zero
\* (GFp_BN_init), nothing freed, nothing pushed.
Enter(names, label, a, buffer) ==
  /\ pc = "idle"
  /\ pc' = label
  /\ arg' = a
  /\ buf' = buffer
  /\ bn' = [x \in names |-> <<>>]
  /\ freed' = [x \in names |-> 0]
  /\ errq' = <<>>
  /\ ret' = 0
  /\ ops' = <<>>
  /\ env' = {}

\* OPENSSL_PUT_ERROR(RSA, reason); goto err.
Fail(reason, err) ==
  /\ pc' = err
  /\ errq' = Append(errq, reason)
  /\ UNCHANGED <<bn, buf>>

\* A statement that only moves on, or assigns one scratch BIGNUM.
Goto(label) == pc' = label /\ UNCHANGED <<errq, bn, buf>>

Assign(name, value, label) ==
  /\ pc' = label
  /\ bn' = [bn EXCEPT ![name] = value]
  /\ UNCHANGED <<errq, buf>>

\* An engine call reports failure (an allocation failed).
EngineFailed == env' = env \cup {"engine"}

\* The engine operations a statement invokes are recorded as it runs.
Invokes(names) == ops' = ops \o names

(***************************************************************************)
(* GFp_rsa_private_transform(rsa, inout, len, blinding, rng).              *)
(***************************************************************************)

Key == arg.rsa
p == Key.mont_p.N

PrivEnter ==
  /\ pc = "idle"
  /\ \E key \in Keys :
       \E f \in BlindFactors(key.mont_n.N) :
         LET context == BlindingFor(f, key)
         IN \E len \in Lengths(GFp_RSA_size(key)) :
              \E b \in Buffers(key.mont_n.N, len) :
                /\ Enter(PrivateBn, "p_parse",
                         [fn |-> "private", rsa |-> key, inout |-> b], b)
                /\ blinding' = context
                /\ sent' = <<>>

\* if (GFp_BN_bin2bn(inout, len, &base) == NULL) goto err;
PrivParse ==
  /\ pc = "p_parse"
  /\ Invokes(<<"GFp_BN_bin2bn">>)
  /\ \E ok \in BOOLEAN :
       IF ok THEN Assign("base", GFp_BN_bin2bn(buf), "p_range") /\ UNCHANGED env
       ELSE Goto("p_err") /\ EngineFailed
  /\ UNCHANGED <<arg, freed, ret, blinding, sent>>

\* if (GFp_BN_ucmp(&base, &rsa->mont_n->N) >= 0) ...
PrivRange ==
  /\ pc = "p_range"
  /\ Invokes(<<"GFp_BN_ucmp">>)
  /\ IF GFp_BN_ucmp(bn.base, Key.mont_n.N) >= 0
       THEN Fail("RSA_R_DATA_TOO_LARGE_FOR_MODULUS", "p_err")
       ELSE Goto("p_blind")
  /\ UNCHANGED <<arg, freed, ret, blinding, env, sent>>

\* if (!GFp_BN_BLINDING_convert(&base, blinding, rsa, rng)) ...
PrivBlind ==
  /\ pc = "p_blind"
  /\ Invokes(<<"GFp_BN_BLINDING_convert">>)
  /\ \E ok \in BOOLEAN :
       IF ok
         THEN /\ Assign("base",
                        GFp_BN_BLINDING_convert(bn.base, blinding, Key.mont_n),
                        "p_reduce_p")
              /\ UNCHANGED env
         ELSE Fail("ERR_R_INTERNAL_ERROR", "p_err") /\ EngineFailed
  /\ UNCHANGED <<arg, freed, ret, blinding, sent>>

\* One call of a condition "!f(..) || !g(..) || ...": it assigns its result
\* and moves to the next call, or fails the condition.
EngineCall(here, op, name, value, next, err) ==
  /\ pc = here
  /\ Invokes(<<op>>)
  /\ \E ok \in BOOLEAN :
       IF ok THEN Assign(name, value, next) /\ UNCHANGED env
       ELSE Fail("ERR_R_INTERNAL_ERROR", err) /\ EngineFailed
  /\ UNCHANGED <<arg, freed, ret, blinding, sent>>

PrivCall(here, op, name, value, next) ==
  EngineCall(here, op, name, value, next, "p_err")

\* assert(GFp_BN_cmp(&rsa->mont_q->N, p) < 0); mp := base^dmp1 mod p.
PrivReduceP ==
  /\ pc = "p_reduce_p"
  /\ GFp_BN_ucmp(Key.mont_q.N, p) < 0
  /\ PrivCall("p_reduce_p", "GFp_BN_reduce_mont", "tmp",
              GFp_BN_reduce_mont(bn.base, Key.mont_p), "p_exp_p")

PrivExpP ==
  PrivCall("p_exp_p", "GFp_BN_mod_exp_mont_consttime", "mp",
           GFp_BN_mod_exp_mont(bn.tmp, Key.dmp1, Key.mont_p), "p_reduce_qq")

\* The base reduced modulo q at once, the step modulo q^2 forgotten.
PrivReduceQQDirect ==
  PrivCall("p_reduce_qq", "GFp_BN_reduce_mont", "tmp",
           GFp_BN_reduce_mont(bn.base, Key.mont_q), "p_reduce_q")

\* mq := base^dmq1 mod q, the base reduced mod q^2 and then mod q.
PrivReduceQQ ==
  PrivCall("p_reduce_qq", "GFp_BN_reduce_mont", "tmp",
           GFp_BN_reduce_mont(bn.base, Key.mont_qq), "p_reduce_q")

PrivReduceQ ==
  PrivCall("p_reduce_q", "GFp_BN_reduce_mont", "tmp",
           GFp_BN_reduce_mont(bn.tmp, Key.mont_q), "p_exp_q")

PrivExpQ ==
  PrivCall("p_exp_q", "GFp_BN_mod_exp_mont_consttime", "mq",
           GFp_BN_mod_exp_mont(bn.tmp, Key.dmq1, Key.mont_q), "p_sub")

\* A fault in the hardware or an injected one: a CRT partial result takes
\* another value below its modulus before the recombination reads it.
Corrupt(v, m) == LessOnce(GFp_BN_add(v, <<1>>), m)

FaultMp ==
  /\ pc = "p_sub"
  /\ "fault" \notin env
  /\ env' = env \cup {"fault"}
  /\ bn' = [bn EXCEPT !["mp"] = Corrupt(bn.mp, p)]
  /\ UNCHANGED <<pc, arg, buf, freed, errq, ret, ops, blinding, sent>>

FaultMq ==
  /\ pc = "p_sub"
  /\ "fault" \notin env
  /\ env' = env \cup {"fault"}
  /\ bn' = [bn EXCEPT !["mq"] = Corrupt(bn.mq, Key.mont_q.N)]
  /\ UNCHANGED <<pc, arg, buf, freed, errq, ret, ops, blinding, sent>>

\* The difference taken without the conditional addition of p.
PrivSubNoWrap ==
  PrivCall("p_sub", "GFp_BN_mod_sub_quick", "tmp",
           IF GFp_BN_ucmp(bn.mp, bn.mq) >= 0 THEN BNSub(bn.mp, bn.mq)
           ELSE BNSub(bn.mq, bn.mp), "p_mul_iqmp")

\* Garner's recombination: r := mq + q * ((mp - mq) * q^-1 mod p).
PrivSub ==
  PrivCall("p_sub", "GFp_BN_mod_sub_quick", "tmp",
           GFp_BN_mod_sub_quick(bn.mp, bn.mq, p), "p_mul_iqmp")

PrivMulIqmp ==
  PrivCall("p_mul_iqmp", "GFp_BN_mod_mul_mont", "tmp",
           GFp_BN_mod_mul_mont(bn.tmp, Key.iqmp_mont, Key.mont_p), "p_mul_q")

PrivMulQ ==
  PrivCall("p_mul_q", "GFp_BN_mod_mul_mont", "tmp",
           GFp_BN_mod_mul_mont(bn.tmp, Key.qmn_mont, Key.mont_n), "p_add")

PrivAdd ==
  PrivCall("p_add", "GFp_BN_add", "r", GFp_BN_add(bn.tmp, bn.mq), "p_vrfy")

\* vrfy := r^e mod n.
PrivVerifyExp ==
  PrivCall("p_vrfy", "GFp_BN_mod_exp_mont_vartime", "vrfy",
           GFp_BN_mod_exp_mont(bn.r, Key.e, Key.mont_n), "p_cmp")

\* GFp_memcmp over len words: nonzero iff some word differs.
GFp_memcmp(a, b, len) == IF \E i \in 1..len : a[i] # b[i] THEN 1 ELSE 0

\* The comparison of the words forgotten: only the lengths are compared.
TopMismatch(vrfy, base) == Len(vrfy) # Len(base)

\* vrfy.top != base.top || GFp_memcmp(vrfy.d, base.d, vrfy.top) != 0
VerifyMismatch(vrfy, base) ==
  Len(vrfy) # Len(base) \/ GFp_memcmp(vrfy, base, Len(vrfy)) # 0

PrivVerifyCmp ==
  /\ pc = "p_cmp"
  /\ Invokes(<<"GFp_memcmp">>)
  /\ IF VerifyMismatch(bn.vrfy, bn.base)
       THEN Fail("ERR_R_INTERNAL_ERROR", "p_err")
       ELSE Goto("p_invert")
  /\ UNCHANGED <<arg, freed, ret, blinding, env, sent>>

\* Unblinding forgotten: r is passed on as it is.
PrivInvertOmitted ==
  PrivCall("p_invert", "GFp_BN_BLINDING_invert", "r", bn.r, "p_write")

PrivInvert ==
  PrivCall("p_invert", "GFp_BN_BLINDING_invert", "r",
           GFp_BN_BLINDING_invert(bn.r, blinding, Key.mont_n), "p_write")

\* A serialization that writes the low bytes of r before it finds that r
\* does not fit.
PrivWriteTruncating ==
  /\ pc = "p_write"
  /\ Invokes(<<"GFp_BN_bn2bin_padded">>)
  /\ buf' = GFp_BN_bn2bin_padded(bn.r, Len(buf))
  /\ IF BnFits(bn.r, Len(buf))
       THEN ret' = 1 /\ pc' = "p_err" /\ UNCHANGED errq
       ELSE pc' = "p_err" /\ errq' = Append(errq, "ERR_R_INTERNAL_ERROR")
            /\ UNCHANGED ret
  /\ UNCHANGED <<arg, bn, freed, blinding, env, sent>>

\* GFp_BN_bn2bin_padded(inout, len, &r), then ret = 1; the serialization
\* fails, writing nothing, when r does not fit len bytes.
PrivWrite ==
  /\ pc = "p_write"
  /\ Invokes(<<"GFp_BN_bn2bin_padded">>)
  /\ IF BnFits(bn.r, Len(buf))
       THEN /\ buf' = GFp_BN_bn2bin_padded(bn.r, Len(buf))
            /\ ret' = 1
            /\ pc' = "p_err"
            /\ UNCHANGED <<errq, bn>>
       ELSE Fail("ERR_R_INTERNAL_ERROR", "p_err") /\ UNCHANGED ret
  /\ UNCHANGED <<arg, freed, blinding, env, sent>>

\* err: the GFp_BN_free calls, and the return.
PrivFreed == {"r", "tmp", "mp", "mq", "vrfy"}

PrivErr ==
  /\ pc = "p_err"
  /\ pc' = "done"
  /\ freed' = [x \in PrivateBn |-> IF x \in PrivFreed THEN freed[x] + 1 ELSE freed[x]]
  /\ UNCHANGED <<arg, buf, bn, errq, ret, ops, blinding, env, sent>>

(***************************************************************************)
(* GFp_rsa_public_decrypt(out, out_len, public_key_n, public_key_e, in,    *)
(* in_len, min_bits, max_bits).                                            *)
(***************************************************************************)

\* The public exponents, modulus size limits and output buffers a caller
\* may pass.
PubExponents(key) == {GFp_BN_bn2bin_padded(key.e, Len(key.e)), <<2>>}
PubMinBits == {34, 35}
PubMaxBits == {33, 8192}
Blank(len) == Tuple([i \in 1..len |-> 170])

PubArg(n, e, in, out, min_bits, max_bits) ==
  [fn |-> "public", public_key_n |-> n, public_key_e |-> e, in |-> in,
   out |-> out, min_bits |-> min_bits, max_bits |-> max_bits]

PubEnter ==
  /\ pc = "idle"
  /\ \E key \in Keys :
       LET n == key.mont_n.N
           size == GFp_RSA_size(key)
       IN \E e \in PubExponents(key), in_len, out_len \in Lengths(size),
             min_bits \in PubMinBits, max_bits \in PubMaxBits :
            \E in \in Buffers(n, in_len) :
              /\ Enter(PublicBn, "u_parse_n",
                       PubArg(GFp_BN_bn2bin_padded(n, size), e, in,
                              Blank(out_len), min_bits, max_bits),
                       Blank(out_len))
              /\ blinding' = NoBlinding
              /\ sent' = <<>>

\* The caller passes the output of a successful private transform on, with
\* the public half of the same key.
PubEnterChained ==
  /\ pc = "done" /\ arg.fn = "private" /\ ret = 1
  /\ pc' = "u_parse_n"
  /\ arg' = PubArg(GFp_BN_bn2bin_padded(Key.mont_n.N, GFp_RSA_size(Key)),
                   GFp_BN_bn2bin_padded(Key.e, Len(Key.e)), buf,
                   Blank(GFp_RSA_size(Key)), 34, 8192)
  /\ buf' = Blank(GFp_RSA_size(Key))
  /\ bn' = [x \in PublicBn |-> <<>>]
  /\ freed' = [x \in PublicBn |-> 0]
  /\ errq' = <<>>
  /\ ret' = 0
  /\ ops' = <<>>
  /\ blinding' = NoBlinding
  /\ env' = {}
  /\ sent' = <<arg.inout>>

PubCall(here, op, name, value, next) ==
  EngineCall(here, op, name, value, next, "u_err")

\* GFp_BN_bin2bn(public_key_n, ..) == NULL || GFp_BN_bin2bn(public_key_e, ..) == NULL
PubParseN ==
  PubCall("u_parse_n", "GFp_BN_bin2bn", "n", GFp_BN_bin2bn(arg.public_key_n),
          "u_parse_e")

PubParseE ==
  PubCall("u_parse_e", "GFp_BN_bin2bn", "e", GFp_BN_bin2bn(arg.public_key_e),
          "u_out_len")

\* rsa_size = GFp_BN_num_bytes(&n); if (out_len != rsa_size) ...
PubCheckOutLen ==
  /\ pc = "u_out_len"
  /\ Invokes(<<"GFp_BN_num_bytes">>)
  /\ IF Len(arg.out) # GFp_BN_num_bytes(bn.n)
       THEN Fail("RSA_R_OUTPUT_BUFFER_TOO_SMALL", "u_err")
       ELSE Goto("u_in_len")
  /\ UNCHANGED <<arg, freed, ret, blinding, env, sent>>

\* The check of in_len forgotten.
PubCheckInLenOmitted ==
  /\ pc = "u_in_len"
  /\ Goto("u_check")
  /\ UNCHANGED <<arg, freed, ret, ops, blinding, env, sent>>

\* if (in_len != rsa_size) ...
PubCheckInLen ==
  /\ pc = "u_in_len"
  /\ IF Len(arg.in) # GFp_BN_num_bytes(bn.n)
       THEN Fail("RSA_R_DATA_LEN_NOT_EQUAL_TO_MOD_LEN", "u_err")
       ELSE Goto("u_check")
  /\ UNCHANGED <<arg, freed, ret, ops, blinding, env, sent>>

\* if (!GFp_rsa_check_modulus_and_exponent(&n, &e, min_bits, max_bits)) goto
\* err; the validator has pushed its reason.
PubCheck ==
  /\ pc = "u_check"
  /\ Invokes(<<"GFp_BN_num_bits">>)
  /\ LET reason == GFp_rsa_check_modulus_and_exponent(bn.n, bn.e, arg.min_bits,
                                                      arg.max_bits)
     IN IF reason = "ok" THEN Goto("u_parse_in") ELSE Fail(reason, "u_err")
  /\ UNCHANGED <<arg, freed, ret, blinding, env, sent>>

\* if (GFp_BN_bin2bn(in, in_len, &f) == NULL) ...
PubParseIn ==
  PubCall("u_parse_in", "GFp_BN_bin2bn", "f", GFp_BN_bin2bn(arg.in), "u_range")

\* The comparison off by one: a block equal to the modulus passes.
PubRangeOffByOne ==
  /\ pc = "u_range"
  /\ Invokes(<<"GFp_BN_ucmp">>)
  /\ IF GFp_BN_ucmp(bn.f, bn.n) > 0
       THEN Fail("RSA_R_DATA_TOO_LARGE_FOR_MODULUS", "u_err")
       ELSE Goto("u_exp")
  /\ UNCHANGED <<arg, freed, ret, blinding, env, sent>>

\* if (GFp_BN_ucmp(&f, &n) >= 0) ...
PubRange ==
  /\ pc = "u_range"
  /\ Invokes(<<"GFp_BN_ucmp">>)
  /\ IF GFp_BN_ucmp(bn.f, bn.n) >= 0
       THEN Fail("RSA_R_DATA_TOO_LARGE_FOR_MODULUS", "u_err")
       ELSE Goto("u_exp")
  /\ UNCHANGED <<arg, freed, ret, blinding, env, sent>>

\* GFp_BN_mod_exp_mont_vartime(&result, &f, &e, &n, NULL): with no context
\* given, the engine builds the one of n.
PubExp ==
  PubCall("u_exp", "GFp_BN_mod_exp_mont_vartime", "result",
          GFp_BN_mod_exp_mont(bn.f, bn.e, MontCtx(bn.n)), "u_write")

\* GFp_BN_bn2bin_padded(out, out_len, &result), then ret = 1.
PubWrite ==
  /\ pc = "u_write"
  /\ Invokes(<<"GFp_BN_bn2bin_padded">>)
  /\ IF BnFits(bn.result, Len(buf))
       THEN /\ buf' = GFp_BN_bn2bin_padded(bn.result, Len(buf))
            /\ ret' = 1
            /\ pc' = "u_err"
            /\ UNCHANGED <<errq, bn>>
       ELSE Fail("ERR_R_INTERNAL_ERROR", "u_err") /\ UNCHANGED ret
  /\ UNCHANGED <<arg, freed, blinding, env, sent>>

\* err: the GFp_BN_free calls, and the return.
PubFreed == {"n", "e", "f", "result"}

PubErr ==
  /\ pc = "u_err"
  /\ pc' = "done"
  /\ freed' = [x \in PublicBn |-> IF x \in PubFreed THEN freed[x] + 1 ELSE freed[x]]
  /\ UNCHANGED <<arg, buf, bn, errq, ret, ops, blinding, env, sent>>

(***************************************************************************)
(* A direct call of GFp_rsa_check_modulus_and_exponent, and the return of  *)
(* any call to the caller.                                                 *)
(***************************************************************************)

Check ==
  /\ pc = "idle"
  /\ \E n \in CheckModuli \cup {key.mont_n.N : key \in Keys},
        e \in CheckExponents, min_bits \in CheckMinBits,
        max_bits \in CheckMaxBits :
       LET reason == GFp_rsa_check_modulus_and_exponent(n, e, min_bits, max_bits)
       IN /\ pc' = "done"
          /\ arg' = [fn |-> "check", n |-> n, e |-> e, min_bits |-> min_bits,
                     max_bits |-> max_bits]
          /\ ret' = IF reason = "ok" THEN 1 ELSE 0
          /\ errq' = IF reason = "ok" THEN <<>> ELSE <<reason>>
          /\ ops' = <<"GFp_BN_num_bits">>
          /\ UNCHANGED <<buf, bn, freed, blinding, env, sent>>

Return ==
  /\ pc = "done"
  /\ pc' = "idle"
  /\ arg' = NoArg
  /\ buf' = <<>>
  /\ bn' = NoBn
  /\ freed' = NoBn
  /\ errq' = <<>>
  /\ ret' = 0
  /\ ops' = <<>>
  /\ blinding' = NoBlinding
  /\ env' = {}
  /\ sent' = <<>>

Next ==
  \/ PrivEnter \/ PrivParse \/ PrivRange \/ PrivBlind
  \/ PrivReduceP \/ PrivExpP \/ PrivReduceQQ \/ PrivReduceQ \/ PrivExpQ
  \/ FaultMp \/ FaultMq
  \/ PrivSub \/ PrivMulIqmp \/ PrivMulQ \/ PrivAdd
  \/ PrivVerifyExp \/ PrivVerifyCmp \/ PrivInvert \/ PrivWrite \/ PrivErr
  \/ PubEnter \/ PubEnterChained \/ PubParseN \/ PubParseE
  \/ PubCheckOutLen \/ PubCheckInLen \/ PubCheck \/ PubParseIn \/ PubRange
  \/ PubExp \/ PubWrite \/ PubErr
  \/ Check \/ Return

Spec == Init /\ [][Next]_vars

(***************************************************************************)
(* The properties.                                                         *)
(***************************************************************************)

Has(op) == \E i \in 1..Len(ops) : ops[i] = op
Below(a, b) == GFp_BN_ucmp(a, b) < 0
Returned(fn) == pc = "done" /\ arg.fn = fn

\* C1: round trip.  A private transform of a message below n, held in a
\* buffer of exactly the modulus byte length, succeeds whatever the blinding
\* factor, unless the engine reports failure or a fault strikes; and the
\* public decrypt of its output, under a key the validator accepts, succeeds
\* and reproduces the message byte for byte.
RoundTrip ==
  /\ ( /\ Returned("private")
       /\ env = {}
       /\ Len(arg.inout) = GFp_RSA_size(Key)
       /\ Below(GFp_BN_bin2bn(arg.inout), Key.mont_n.N) )
     => ret = 1
  /\ ( /\ Returned("public")
       /\ sent # <<>>
       /\ env = {}
       /\ Len(sent[1]) = Len(arg.public_key_n)
       /\ GFp_rsa_check_modulus_and_exponent(
            GFp_BN_bin2bn(arg.public_key_n), GFp_BN_bin2bn(arg.public_key_e),
            arg.min_bits, arg.max_bits) = "ok" )
     => (ret = 1 /\ buf = sent[1])

\* A message of several bytes has gone through both transforms and come back.
RoundTripWitness ==
  /\ Returned("public")
  /\ sent # <<>>
  /\ ret = 1
  /\ buf = sent[1]
  /\ Len(GFp_BN_bin2bn(buf)) > 1

\* C2, as stated: whenever a buffer length differs from the modulus byte
\* length, either transform fails with a size-mismatch reason, having invoked
\* no engine operation.
SizeReasons ==
  {"RSA_R_OUTPUT_BUFFER_TOO_SMALL", "RSA_R_DATA_LEN_NOT_EQUAL_TO_MOD_LEN"}

PubSize == GFp_BN_num_bytes(GFp_BN_bin2bn(arg.public_key_n))

SizeContractsAsStated ==
  /\ (Returned("private") /\ Len(arg.inout) # GFp_RSA_size(Key))
     => (ret = 0 /\ Len(errq) = 1 /\ errq[1] \in SizeReasons /\ ops = <<>>)
  /\ (Returned("public") /\ (Len(arg.out) # PubSize \/ Len(arg.in) # PubSize))
     => (ret = 0 /\ Len(errq) = 1 /\ errq[1] \in SizeReasons /\ ops = <<>>)

\* C2, amended: the public decrypt, once n and e are parsed, fails a call
\* whose out_len differs from the modulus byte length with
\* OUTPUT_BUFFER_TOO_SMALL, and else one whose in_len differs with
\* DATA_LEN_NOT_EQUAL_TO_MOD_LEN, leaving out untouched, the parses of n and
\* e and the byte count of n being the only engine operations invoked; the
\* private transform checks no length and never reports a size mismatch.
SizeContracts ==
  /\ (Returned("public") /\ "engine" \notin env /\ Len(arg.out) # PubSize)
     => /\ ret = 0
        /\ errq = <<"RSA_R_OUTPUT_BUFFER_TOO_SMALL">>
        /\ ops = <<"GFp_BN_bin2bn", "GFp_BN_bin2bn", "GFp_BN_num_bytes">>
        /\ buf = arg.out
  /\ ( /\ Returned("public") /\ "engine" \notin env
       /\ Len(arg.out) = PubSize /\ Len(arg.in) # PubSize )
     => /\ ret = 0
        /\ errq = <<"RSA_R_DATA_LEN_NOT_EQUAL_TO_MOD_LEN">>
        /\ ops = <<"GFp_BN_bin2bn", "GFp_BN_bin2bn", "GFp_BN_num_bytes">>
        /\ buf = arg.out
  /\ arg.fn = "private" => \A i \in 1..Len(errq) : errq[i] \notin SizeReasons
  /\ ( /\ Returned("private") /\ env = {}
       /\ Len(arg.inout) > GFp_RSA_size(Key)
       /\ Below(GFp_BN_bin2bn(arg.inout), Key.mont_n.N) )
     => ret = 1

\* A private transform of a buffer longer than the modulus has succeeded.
SizeContractsWitness ==
  Returned("private") /\ Len(arg.inout) > GFp_RSA_size(Key) /\ ret = 1

\* C3: fault-check soundness.  Once the verification comparison has run in
\* a private transform, a recombined value with r^e mod n different from the
\* blinded base, in a word or in length, means the call is failing with the
\* internal-error reason, GFp_BN_BLINDING_invert has not been invoked and
\* inout is as at entry; unblinding and the write to inout happen only with
\* vrfy equal to the base; and a corrupted mp or mq always shows as such a
\* difference.
FaultCheckSound ==
  arg.fn = "private" =>
    /\ (Has("GFp_memcmp") /\ bn.vrfy # bn.base)
       => /\ pc \in {"p_err", "done"}
          /\ ret = 0
          /\ errq = <<"ERR_R_INTERNAL_ERROR">>
          /\ ~Has("GFp_BN_BLINDING_invert")
          /\ buf = arg.inout
    /\ (Has("GFp_BN_BLINDING_invert") \/ Has("GFp_BN_bn2bin_padded") \/ ret = 1)
       => (Has("GFp_memcmp") /\ "fault" \notin env)
    /\ (pc = "p_cmp" /\ "fault" \in env) => bn.vrfy # bn.base

\* A call whose mq was corrupted has returned failure from the comparison.
FaultCheckWitness ==
  /\ Returned("private")
  /\ env = {"fault"}
  /\ Has("GFp_memcmp")
  /\ bn.vrfy # bn.base
  /\ Len(bn.vrfy) = Len(bn.base)
  /\ ret = 0

\* C4: failure atomicity.  A transform that returns failure leaves the
\* caller's buffer as it was at entry; the buffer changes only in the final
\* serialization, and then the call is succeeding with nothing pushed and no
\* engine failure behind it.
Entry == IF arg.fn = "private" THEN arg.inout ELSE arg.out

FailureAtomic ==
  arg.fn \in {"private", "public"} =>
    /\ (pc = "done" /\ ret = 0) => buf = Entry
    /\ buf # Entry
       => /\ ret = 1
          /\ errq = <<>>
          /\ "engine" \notin env
          /\ Has("GFp_BN_bn2bin_padded")

\* A private transform has failed in the serialization itself, its result
\* not fitting the buffer, and the buffer is as it was.
FailureAtomicWitness ==
  /\ Returned("private")
  /\ ret = 0
  /\ Has("GFp_BN_bn2bin_padded")
  /\ ~BnFits(bn.r, Len(buf))
  /\ buf = arg.inout

\* C5: the validator returns the reason of the first failing check of (1)
\* bits(n) < min_bits, (2) bits(n) > min(max_bits, 16384), (3) bits(e) < 2,
\* (4) bits(e) > 33, (5) e even, (6) bits(n) <= 33, and success iff none
\* fails; so an accepted exponent is odd with 2 to 33 bits, and such an
\* exponent is accepted whenever the modulus passes (1), (2) and (6).
SmallerOf(a, b) == IF a < b THEN a ELSE b

CheckList(n, e, min_bits, max_bits) ==
  << [fails |-> GFp_BN_num_bits(n) < min_bits,
      reason |-> "RSA_R_KEY_SIZE_TOO_SMALL"],
     [fails |-> GFp_BN_num_bits(n) > SmallerOf(max_bits, 16384),
      reason |-> "RSA_R_MODULUS_TOO_LARGE"],
     [fails |-> GFp_BN_num_bits(e) < 2, reason |-> "RSA_R_BAD_E_VALUE"],
     [fails |-> GFp_BN_num_bits(e) > 33, reason |-> "RSA_R_BAD_E_VALUE"],
     [fails |-> e = <<>> \/ e[1] % 2 = 0, reason |-> "RSA_R_BAD_E_VALUE"],
     [fails |-> GFp_BN_num_bits(n) <= 33,
      reason |-> "RSA_R_KEY_SIZE_TOO_SMALL"] >>

CheckOrder ==
  Returned("check") =>
    LET list == CheckList(arg.n, arg.e, arg.min_bits, arg.max_bits)
        failing == {i \in 1..6 : list[i].fails}
        e_bits == GFp_BN_num_bits(arg.e)
    IN /\ IF failing = {} THEN ret = 1 /\ errq = <<>>
          ELSE /\ ret = 0
               /\ errq = <<list[CHOOSE i \in failing : \A j \in failing : i <= j].reason>>
       /\ ret = 1 => (e_bits >= 2 /\ e_bits <= 33 /\ arg.e[1] % 2 = 1)
       /\ ( /\ e_bits >= 2 /\ e_bits <= 33 /\ arg.e[1] % 2 = 1
            /\ ~list[1].fails /\ ~list[2].fails /\ ~list[6].fails ) => ret = 1
       /\ ret = 1 => Below(arg.e, arg.n)

\* A 33-bit modulus within the caller's limits is rejected by check (6), with
\* a good exponent.
CheckOrderWitness ==
  /\ Returned("check")
  /\ GFp_BN_num_bits(arg.n) = 33
  /\ GFp_BN_num_bits(arg.n) >= arg.min_bits
  /\ GFp_BN_num_bits(arg.n) <= arg.max_bits
  /\ arg.e = <<3>>
  /\ ret = 0
  /\ errq = <<"RSA_R_KEY_SIZE_TOO_SMALL">>

\* C6: data-too-large rejection.  An input block whose value is at least the
\* modulus never leads to success and never to a write: the private
\* transform, its parse done, rejects it with DATA_TOO_LARGE_FOR_MODULUS, and
\* so does the public decrypt once the lengths and the key have passed and
\* the block is parsed.
Block == IF arg.fn = "private" THEN arg.inout ELSE arg.in
Modulus ==
  IF arg.fn = "private" THEN Key.mont_n.N ELSE GFp_BN_bin2bn(arg.public_key_n)

TooLargeRejected ==
  (arg.fn \in {"private", "public"} /\ ~Below(GFp_BN_bin2bn(Block), Modulus))
    => /\ ret = 0
       /\ buf = Entry
       /\ ~Has("GFp_BN_BLINDING_convert")
       /\ ~Has("GFp_BN_mod_exp_mont_vartime")
       /\ (pc = "done" /\ Has("GFp_BN_ucmp"))
          => errq = <<"RSA_R_DATA_TOO_LARGE_FOR_MODULUS">>
       /\ (pc = "done" /\ arg.fn = "private" /\ env = {}) => Has("GFp_BN_ucmp")
       /\ ( /\ pc = "done" /\ arg.fn = "public" /\ env = {}
            /\ Len(arg.out) = PubSize /\ Len(arg.in) = PubSize
            /\ GFp_rsa_check_modulus_and_exponent(
                 Modulus, GFp_BN_bin2bn(arg.public_key_e), arg.min_bits,
                 arg.max_bits) = "ok" )
          => Has("GFp_BN_ucmp")

\* A public decrypt of the modulus itself has been rejected.
TooLargeWitness ==
  /\ Returned("public")
  /\ GFp_BN_bin2bn(arg.in) = Modulus
  /\ errq = <<"RSA_R_DATA_TOO_LARGE_FOR_MODULUS">>
  /\ ret = 0

\* C7, as stated: every failure return has pushed exactly one reason.
OneReasonPerFailure == (pc = "done" /\ ret = 0) => Len(errq) = 1

\* C8, as stated: q < q^2 < n < q^3 for every key the private transform
\* runs with.
Q == Key.mont_q.N
QQ == Key.mont_qq.N

Garner ==
  (arg.fn = "private" /\ "engine" \notin env) =>
    /\ pc \in {"p_sub", "p_mul_iqmp", "p_mul_q", "p_add", "p_vrfy"}
       => (Below(bn.mp, p) /\ Below(bn.mq, Q))
    /\ pc = "p_mul_iqmp"
       => /\ Below(bn.tmp, p)
          /\ LessOnce(GFp_BN_add(bn.tmp, bn.mq), p) = bn.mp
    /\ pc = "p_mul_q"
       => /\ Below(bn.tmp, p)
          /\ BNMod(GFp_BN_add(BNMul(bn.tmp, Q), bn.mq), p) = bn.mp
    /\ pc = "p_add"
       => /\ Below(bn.tmp, Key.mont_n.N)
          /\ BNMod(bn.tmp, Q) = <<>>
          /\ BNMod(GFp_BN_add(bn.tmp, bn.mq), p) = bn.mp
    /\ pc = "p_vrfy"
       => /\ Below(bn.r, Key.mont_n.N)
          /\ BNMod(bn.r, p) = bn.mp
          /\ BNMod(bn.r, Q) = bn.mq
    /\ (pc = "p_write" /\ Len(buf) = GFp_RSA_size(Key))
       => (Below(bn.r, Key.mont_n.N) /\ BnFits(bn.r, Len(buf)))

\* A recombination that needed the addition of p (mp < mq), under the
\* 34-bit key.
GarnerWitness ==
  /\ arg.fn = "private"
  /\ pc = "p_vrfy"
  /\ env = {}
  /\ Below(bn.mp, bn.mq)
  /\ Len(Key.mont_n.N) > 4
  /\ BNMod(bn.r, p) = bn.mp

\* C10, as stated: every scratch BIGNUM a transform initialises has been
\* released exactly once when the call returns.
ReleasedOnce ==
  (pc = "done" /\ arg.fn \in {"private", "public"})
    => \A x \in DOMAIN freed : freed[x] = 1

====
